---- MODULE Spec2Model ----
(***************************************************************************)
(* A model of the in-memory filesystem engine of in-mem-fs: the generic    *)
(* tree (tree.rs), the node store with its inode index (tree_fs.rs) and    *)
(* the request dispatcher MemFs (mem_fs.rs).                               *)
(*                                                                         *)
(* Every Rc<RefCell<TreeNode<Item>>> the program allocates is a cell of    *)
(* `heap`, named by its position.  Item.node holds a strong reference to   *)
(* the item's own tree node, so a node is never freed: a node detached by  *)
(* unlink or rmdir stays in `heap` with no owner but itself.               *)
(* ByteBuffer is the bytebuffer crate: set_rpos and set_wpos clamp the     *)
(* cursor to the buffer length, read copies min(len - rpos, |buf|) bytes,  *)
(* write_bytes resizes to wpos + |bytes| and overwrites from wpos.  Both   *)
(* cursors are set by the dispatcher before every use, so the buffer is    *)
(* modelled by its bytes alone.  SystemTime::now() reads the variable       *)
(* `now`; a handler runs within one reading of the clock.                  *)
(***************************************************************************)
EXTENDS Integers, Sequences, FiniteSets, TLC

\* ------------------------------------------------------------------ bounds
\* The inode counter stops at MaxIno: at most MaxIno - 1 items are created.
MaxIno == 3
\* Content buffers hold at most MaxLen bytes.
MaxLen == 3
\* open and opendir stop once MaxFh file handles were handed out.
MaxFh == 2
\* The clock stops at MaxTime.
MaxTime == 2

\* ------------------------------------------------------- program constants
BLOCK_SIZE == 512
S_IFMT == 61440
S_IFREG == 32768
S_IFDIR == 16384
S_IFLNK == 40960
S_ISUID == 2048
S_ISGID == 1024
S_ISVTX == 512
S_IXUSR == 64
S_IXGRP == 8
S_IXOTH == 1
F_OK == 0
X_OK == 1
W_OK == 2
R_OK == 4
O_RDONLY == 0
O_WRONLY == 1
O_RDWR == 2
O_ACCMODE == 3
O_TRUNC == 512
FMODE_EXEC == 32
\* mode as u16
U16 == 65536

\* Option::None for a node reference
None == 0

\* SystemTime::UNIX_EPOCH
UNIX_EPOCH == 0

\* ------------------------------------------------------------------ clock
VARIABLE now             \* what SystemTime::now() returns

\* ------------------------------------------------------------ bit helpers
RECURSIVE BitAnd(_, _)
BitAnd(a, b) ==
    IF a = 0 \/ b = 0 THEN 0
    ELSE (IF a % 2 = 1 /\ b % 2 = 1 THEN 1 ELSE 0) + 2 * BitAnd(a \div 2, b \div 2)

\* a & !b
BitClear(a, b) == a - BitAnd(a, b)

\* a | b
BitOr(a, b) == a + b - BitAnd(a, b)

\* ---------------------------------------------------------- pure helpers
dir_attr(ino) ==
    [ino |-> ino, size |-> BLOCK_SIZE,
     blocks |-> (BLOCK_SIZE + BLOCK_SIZE - 1) \div BLOCK_SIZE,
     kind |-> "Directory", perm |-> 511, nlink |-> 2, uid |-> 0, gid |-> 0,
     atime |-> now, mtime |-> now, ctime |-> now, crtime |-> UNIX_EPOCH]

file_attr(ino, size) ==
    [ino |-> ino, size |-> size,
     blocks |-> (size + BLOCK_SIZE - 1) \div BLOCK_SIZE,
     kind |-> "RegularFile", perm |-> 420, nlink |-> 1, uid |-> 0, gid |-> 0,
     atime |-> now, mtime |-> now, ctime |-> now, crtime |-> UNIX_EPOCH]

creation_gid(parent_attr, gid) ==
    IF BitAnd(parent_attr.perm, S_ISGID) # 0 THEN parent_attr.gid ELSE gid

\* a check that grants root everything
check_access_root_all(file_uid, file_gid, file_mode, uid, gid, access_mask) ==
    IF access_mask = F_OK THEN TRUE
    ELSE IF uid = 0 THEN TRUE
    ELSE IF uid = file_uid THEN
        access_mask - BitAnd(access_mask, file_mode \div 64) = 0
    ELSE IF gid = file_gid THEN
        access_mask - BitAnd(access_mask, file_mode \div 8) = 0
    ELSE
        access_mask - BitAnd(access_mask, file_mode) = 0

\* a check that lets the owner use the bits of the other triad as well
check_access_owner_other(file_uid, file_gid, file_mode, uid, gid, access_mask) ==
    IF access_mask = F_OK THEN TRUE
    ELSE IF uid = 0 THEN
        LET m0 == BitAnd(access_mask, X_OK)
            m1 == m0 - BitAnd(m0, file_mode \div 64)
            m2 == m1 - BitAnd(m1, file_mode \div 8)
            m3 == m2 - BitAnd(m2, file_mode)
        IN  m3 = 0
    ELSE IF uid = file_uid THEN
        LET m1 == access_mask - BitAnd(access_mask, file_mode \div 64)
        IN  m1 - BitAnd(m1, file_mode) = 0
    ELSE IF gid = file_gid THEN
        access_mask - BitAnd(access_mask, file_mode \div 8) = 0
    ELSE
        access_mask - BitAnd(access_mask, file_mode) = 0

check_access(file_uid, file_gid, file_mode, uid, gid, access_mask) ==
    IF access_mask = F_OK THEN TRUE
    ELSE IF uid = 0 THEN
        LET m0 == BitAnd(access_mask, X_OK)
            m1 == m0 - BitAnd(m0, file_mode \div 64)
            m2 == m1 - BitAnd(m1, file_mode \div 8)
            m3 == m2 - BitAnd(m2, file_mode)
        IN  m3 = 0
    ELSE IF uid = file_uid THEN
        access_mask - BitAnd(access_mask, file_mode \div 64) = 0
    ELSE IF gid = file_gid THEN
        access_mask - BitAnd(access_mask, file_mode \div 8) = 0
    ELSE
        access_mask - BitAnd(access_mask, file_mode) = 0

\* "Panic" stands for unimplemented!()
as_file_kind(mode) ==
    LET m == BitAnd(mode, S_IFMT)
    IN  IF m = S_IFREG THEN "RegularFile"
        ELSE IF m = S_IFLNK THEN "Symlink"
        ELSE IF m = S_IFDIR THEN "Directory"
        ELSE "Panic"

clear_suid_sgid(perm) ==
    LET p1 == BitClear(perm, S_ISUID)
    IN  IF BitAnd(p1, S_IXGRP) # 0 THEN BitClear(p1, S_ISGID) ELSE p1

\* MemFs::new without the abi-7-26 feature
suid_support == FALSE

creation_mode(mode) ==
    IF ~suid_support THEN BitClear(mode, S_ISUID + S_ISGID) % U16
    ELSE mode % U16

\* ------------------------------------------------------------------ state
VARIABLES
    heap,                \* every tree node allocated so far, with its item
    root,                \* Tree.root: a node, or None
    ino_to_node,         \* TreeFs.ino_to_node: ino -> node
    current_inode,       \* MemFs.current_inode
    current_file_handle, \* MemFs.current_file_handle
    reply                \* the reply to the last request

vars == <<heap, root, ino_to_node, current_inode, current_file_handle, reply, now>>

\* TreeNode::new(Item::new(ino, name, is_dir, extra)): no children, no
\* parent, an empty buffer, Item.node not linked yet.
NewNode(ino, name, is_dir, extra) ==
    [ino |-> ino, name |-> name, is_dir |-> is_dir, extra |-> extra,
     data |-> <<>>, node |-> None, children |-> <<>>, parent |-> None]

NoAttr == [ino |-> 0]

Reply(op, err) ==
    [op |-> op, err |-> err, attr |-> NoAttr, data |-> <<>>, written |-> 0, fh |-> 0,
     entries |-> <<>>]

ReplyAttr(op, attr) == [Reply(op, "OK") EXCEPT !.attr = attr]

\* A panic aborts the process: no later request is served.
panicked == reply.err = "PANIC"

\* --------------------------------------------------------------- tree.rs
\* an attach that leaves the child's parent link unset
Tree_push_child_nolink(h, parent, child) ==
    [h EXCEPT ![parent].children = Append(@, child)]

Tree_push_child(h, parent, child) ==
    [h EXCEPT ![parent].children = Append(@, child), ![child].parent = parent]

Tree_remove_child(h, parent, child) ==
    [h EXCEPT ![parent].children = SelectSeq(@, LAMBDA c : c # child),
              ![child].parent = None]

\* ------------------------------------------------------------ tree_fs.rs
get_item_mut(ino) ==
    IF ino \in DOMAIN ino_to_node THEN ino_to_node[ino] ELSE None

\* a child list that always looks empty
children_empty(n) == <<>>

children(n) == IF ~heap[n].is_dir THEN <<>> ELSE heap[n].children

get_parent(n) == heap[n].parent

\* a scan that stops at the first child
find_child_mut_first(n, name) ==
    IF ~heap[n].is_dir THEN None
    ELSE LET cs == heap[n].children
         IN  IF cs # <<>> /\ heap[cs[1]].name = name THEN cs[1] ELSE None

find_child_mut(n, name) ==
    IF ~heap[n].is_dir THEN None
    ELSE LET cs == heap[n].children
             hits == {i \in 1..Len(cs) : heap[cs[i]].name = name}
         IN  IF hits = {} THEN None
             ELSE cs[CHOOSE i \in hits : \A j \in hits : i <= j]

\* an insert that is lost
IndexInsert_lost(index, ino, node) == index

\* the index after ino_to_node.insert(ino, node)
IndexInsert(index, ino, node) ==
    [i \in DOMAIN index \cup {ino} |-> IF i = ino THEN node ELSE index[i]]

\* a removal that is lost
IndexRemove_lost(index, ino) == index

\* the index after ino_to_node.remove(ino)
IndexRemove(index, ino) ==
    [i \in DOMAIN index \ {ino} |-> index[i]]

\* TreeFs::set_root on a directory item: the new heap, root and index
set_root(item) ==
    LET n == Len(heap) + 1
        h1 == Append(heap, item)
        h2 == [h1 EXCEPT ![n].node = n]
    IN  [heap |-> h2, root |-> n, index |-> IndexInsert(ino_to_node, h2[n].ino, n)]

\* TreeFs::push under a directory parent: the new heap and index
push(parent, child) ==
    LET parent_node == heap[parent].node
        child_node == Len(heap) + 1
        h1 == Append(heap, child)
        h2 == Tree_push_child(h1, parent_node, child_node)
        last == h2[parent_node].children[Len(h2[parent_node].children)]
        h3 == [h2 EXCEPT ![last].node = child_node]
    IN  [heap |-> h3, index |-> IndexInsert(ino_to_node, h3[child_node].ino, child_node)]

\* TreeFs::remove_child panics unless parent is a directory and is the
\* node child's parent link resolves to
remove_child_ok(parent, child) ==
    /\ heap[parent].is_dir
    /\ heap[heap[child].node].parent # None
    /\ heap[heap[child].node].parent = heap[parent].node

remove_child(parent, child) ==
    LET parent_node == heap[heap[child].node].parent
    IN  [heap |-> Tree_remove_child(heap, parent_node, heap[child].node),
         index |-> IndexRemove(ino_to_node, heap[child].ino)]

\* ------------------------------------------------------------- mem_fs.rs
Init ==
    /\ heap = <<>>
    /\ root = None
    /\ ino_to_node = <<>>
    /\ current_inode = 1
    /\ current_file_handle = 0
    /\ reply = Reply("new", "OK")
    /\ now = 1

\* attr.mtime = SystemTime::now(); attr.ctime = SystemTime::now()
touch(attr) == [attr EXCEPT !.mtime = now, !.ctime = now]

\* a touch that leaves the times alone
touch_never(attr) == attr

\* an allocator that hands out the lowest ino not in the index
allocate_next_inode_reuse(cur) ==
    CHOOSE i \in 2..(cur + 1) :
        /\ i \notin DOMAIN ino_to_node
        /\ \A j \in 2..(i - 1) : j \in DOMAIN ino_to_node

allocate_next_inode(cur) == cur + 1

allocate_next_file_handle(cur) == cur + 1

\* an init that always builds a root
init_always == TRUE

\* whether init has to create the root
init_needs_root == root = None

FsInit ==
    /\ ~panicked
    /\ IF init_needs_root
       THEN LET r == set_root(NewNode(1, "root", TRUE, dir_attr(1)))
            IN  /\ heap' = r.heap
                /\ root' = r.root
                /\ ino_to_node' = r.index
       ELSE UNCHANGED <<heap, root, ino_to_node>>
    /\ reply' = Reply("init", "OK")
    /\ UNCHANGED <<current_inode, current_file_handle, now>>


\* MemFs::create_nod: the outcome as a record.  err is "OK", an errno or
\* "PANIC" (unimplemented!() in as_file_kind); the other fields are the
\* heap, index and inode counter it leaves and the attributes it returns.
\* The parent's mtime and ctime are set once every check has passed.
create_nod(parent, mode, req, name) ==
    LET p == get_item_mut(parent)
        same(e) == [err |-> e, heap |-> heap, index |-> ino_to_node,
                    cur |-> current_inode, attr |-> NoAttr]
    IN  IF p = None THEN same("ENOENT")
        ELSE IF ~heap[p].is_dir THEN same("ENOENT")
        ELSE IF find_child_mut(p, name) # None THEN same("EEXIST")
        ELSE LET parent_attr == heap[p].extra
             IN  IF ~check_access(parent_attr.uid, parent_attr.gid, parent_attr.perm,
                                  req.uid, req.gid, W_OK)
                 THEN same("EACCES")
                 ELSE LET mode1 == IF req.uid # 0
                                   THEN BitClear(mode, S_ISUID + S_ISGID) ELSE mode
                          kind == as_file_kind(mode1)
                          ino == allocate_next_inode(current_inode)
                          attr0 == IF kind = "Directory" THEN dir_attr(ino)
                                   ELSE file_attr(ino, 0)
                          attr == [attr0 EXCEPT !.perm = creation_mode(mode1),
                                                !.uid = req.uid,
                                                !.gid = creation_gid(parent_attr, req.gid)]
                          r == push(p, NewNode(ino, name, kind = "Directory", attr))
                      IN  IF kind = "Panic" THEN same("PANIC")
                          ELSE [err |-> "OK",
                                heap |-> [r.heap EXCEPT ![p].extra = touch(@)],
                                index |-> r.index, cur |-> ino, attr |-> attr]

Mknod(req, parent, name, mode) ==
    /\ ~panicked
    /\ current_inode < MaxIno
    /\ LET file_type == BitAnd(mode, S_IFMT)
       IN  IF file_type # S_IFREG /\ file_type # S_IFDIR
           THEN /\ reply' = Reply("mknod", "ENOSYS")
                /\ UNCHANGED <<heap, ino_to_node, current_inode>>
           ELSE LET r == create_nod(parent, mode, req, name)
                IN  /\ heap' = r.heap
                    /\ ino_to_node' = r.index
                    /\ current_inode' = r.cur
                    /\ reply' = [Reply("mknod", r.err) EXCEPT !.attr = r.attr]
    /\ UNCHANGED <<root, current_file_handle, now>>

Create(req, parent, name, mode, flags) ==
    /\ ~panicked
    /\ current_inode < MaxIno
    /\ IF BitAnd(flags, O_ACCMODE) \notin {O_RDONLY, O_WRONLY, O_RDWR}
       THEN /\ reply' = Reply("create", "EINVAL")
            /\ UNCHANGED <<heap, ino_to_node, current_inode, current_file_handle>>
       ELSE LET r == create_nod(parent, mode, req, name)
            IN  /\ heap' = r.heap
                /\ ino_to_node' = r.index
                /\ current_inode' = r.cur
                /\ IF r.err = "OK"
                   THEN /\ current_file_handle' =
                               allocate_next_file_handle(current_file_handle)
                        /\ reply' = [Reply("create", "OK") EXCEPT
                                        !.attr = r.attr, !.fh = current_file_handle']
                   ELSE /\ UNCHANGED current_file_handle
                        /\ reply' = Reply("create", r.err)
    /\ UNCHANGED <<root, now>>

\* MemFs::mkdir.  The item is pushed with dir_attr(ino); mode, uid and gid
\* are set afterwards on the copy that is sent in the reply.
Mkdir(req, parent, name, mode) ==
    /\ ~panicked
    /\ current_inode < MaxIno
    /\ LET p == get_item_mut(parent)
       IN  IF p # None /\ find_child_mut(p, name) # None
           THEN /\ reply' = Reply("mkdir", "EEXIST")
                /\ UNCHANGED <<heap, ino_to_node, current_inode>>
           ELSE IF p = None
           THEN \* get_item_mut(parent).unwrap()
                /\ reply' = Reply("mkdir", "PANIC")
                /\ UNCHANGED <<heap, ino_to_node, current_inode>>
           ELSE LET parent_attr == heap[p].extra
                IN  IF ~check_access(parent_attr.uid, parent_attr.gid, parent_attr.perm,
                                     req.uid, req.gid, W_OK)
                    THEN /\ reply' = Reply("mkdir", "EACCES")
                         /\ UNCHANGED <<heap, ino_to_node, current_inode>>
                    ELSE LET ino == allocate_next_inode(current_inode)
                             attr == dir_attr(ino)
                             mode1 == IF req.uid # 0
                                      THEN BitClear(mode, S_ISUID + S_ISGID) ELSE mode
                             mode2 == IF BitAnd(parent_attr.perm, S_ISGID) # 0
                                      THEN BitOr(mode1, S_ISGID) ELSE mode1
                             sent == [attr EXCEPT !.size = BLOCK_SIZE,
                                                  !.atime = now, !.mtime = now,
                                                  !.ctime = now,
                                                  !.perm = creation_mode(mode2),
                                                  !.uid = req.uid,
                                                  !.gid = creation_gid(parent_attr, req.gid)]
                         IN  /\ current_inode' = ino
                             /\ IF heap[p].is_dir
                                THEN LET r == push(p, NewNode(ino, name, TRUE, attr))
                                     IN  /\ heap' = [r.heap EXCEPT ![p].extra = touch(@)]
                                         /\ ino_to_node' = r.index
                                         /\ reply' = ReplyAttr("mkdir", sent)
                                ELSE \* TreeFs::push: "Parent must be a directory"
                                     /\ reply' = Reply("mkdir", "PANIC")
                                     /\ UNCHANGED <<heap, ino_to_node>>
    /\ UNCHANGED <<root, current_file_handle, now>>

\* a rename that looks for name before it looks for new_name
Rename_name_first(parent, name, new_parent, new_name) ==
    /\ ~panicked
    /\ LET p == get_item_mut(parent)
       IN  IF parent # new_parent \/ p = None
           THEN /\ reply' = Reply("rename", IF p = None THEN "ENOENT" ELSE "ENOSYS")
                /\ UNCHANGED heap
           ELSE LET child == find_child_mut(p, name)
                IN  IF child = None
                    THEN /\ reply' = Reply("rename", "ENOENT")
                         /\ UNCHANGED heap
                    ELSE IF find_child_mut(p, new_name) # None
                    THEN /\ reply' = Reply("rename", "EEXIST")
                         /\ UNCHANGED heap
                    ELSE /\ heap' = [heap EXCEPT ![child].name = new_name,
                                                 ![p].extra = touch(@),
                                                 ![child].extra = touch(@)]
                         /\ reply' = Reply("rename", "OK")
    /\ UNCHANGED <<root, ino_to_node, current_inode, current_file_handle, now>>

\* a rename that takes the child out and appends it again under its new name
Rename_reinsert(parent, name, new_parent, new_name) ==
    /\ ~panicked
    /\ IF parent # new_parent
       THEN /\ reply' = Reply("rename", "ENOSYS")
            /\ UNCHANGED heap
       ELSE LET p == get_item_mut(parent)
            IN  IF p = None
                THEN /\ reply' = Reply("rename", "ENOENT")
                     /\ UNCHANGED heap
                ELSE IF find_child_mut(p, new_name) # None
                THEN /\ reply' = Reply("rename", "EEXIST")
                     /\ UNCHANGED heap
                ELSE LET child == find_child_mut(p, name)
                     IN  IF child = None
                         THEN /\ reply' = Reply("rename", "ENOENT")
                              /\ UNCHANGED heap
                         ELSE /\ heap' = [heap EXCEPT
                                            ![child].name = new_name,
                                            ![p].extra = touch(@),
                                            ![p].children =
                                               SelectSeq(@, LAMBDA c : c # child)
                                               \o <<child>>,
                                            ![child].extra = touch(@)]
                              /\ reply' = Reply("rename", "OK")
    /\ UNCHANGED <<root, ino_to_node, current_inode, current_file_handle, now>>

\* a rename that sets the parent's times before it looks at the names
Rename_touch_first(parent, name, new_parent, new_name) ==
    /\ ~panicked
    /\ LET p == get_item_mut(parent)
       IN  IF parent # new_parent \/ p = None
           THEN /\ reply' = Reply("rename", IF p = None THEN "ENOENT" ELSE "ENOSYS")
                /\ UNCHANGED heap
           ELSE LET h == [heap EXCEPT ![p].extra = [@ EXCEPT !.mtime = now, !.ctime = now]]
                    child == find_child_mut(p, name)
                IN  IF find_child_mut(p, new_name) # None
                    THEN /\ reply' = Reply("rename", "EEXIST")
                         /\ heap' = h
                    ELSE IF child = None
                    THEN /\ reply' = Reply("rename", "ENOENT")
                         /\ heap' = h
                    ELSE /\ heap' = [h EXCEPT ![child].name = new_name,
                                              ![child].extra = [@ EXCEPT !.mtime = now,
                                                                         !.ctime = now]]
                         /\ reply' = Reply("rename", "OK")
    /\ UNCHANGED <<root, ino_to_node, current_inode, current_file_handle, now>>

Rename(parent, name, new_parent, new_name) ==
    /\ ~panicked
    /\ IF parent # new_parent
       THEN /\ reply' = Reply("rename", "ENOSYS")
            /\ UNCHANGED heap
       ELSE LET p == get_item_mut(parent)
            IN  IF p = None
                THEN /\ reply' = Reply("rename", "ENOENT")
                     /\ UNCHANGED heap
                ELSE IF find_child_mut(p, new_name) # None
                THEN /\ reply' = Reply("rename", "EEXIST")
                     /\ UNCHANGED heap
                ELSE LET child == find_child_mut(p, name)
                     IN  IF child = None
                         THEN /\ reply' = Reply("rename", "ENOENT")
                              /\ UNCHANGED heap
                         ELSE /\ heap' = [heap EXCEPT ![child].name = new_name,
                                                      ![p].extra = touch(@),
                                                      ![child].extra = touch(@)]
                              /\ reply' = Reply("rename", "OK")
    /\ UNCHANGED <<root, ino_to_node, current_inode, current_file_handle, now>>

\* a sticky-bit test that lets only root and the parent's owner through
sticky_denied_child_owner(parent_attr, attr, uid) ==
    /\ BitAnd(parent_attr.perm, S_ISVTX) # 0
    /\ uid # 0
    /\ uid # parent_attr.uid

\* the sticky-bit test of unlink and rmdir
sticky_denied(parent_attr, attr, uid) ==
    /\ BitAnd(parent_attr.perm, S_ISVTX) # 0
    /\ uid # 0
    /\ uid # parent_attr.uid
    /\ uid # attr.uid

\* the tail shared by unlink and rmdir: the parent's ctime and mtime are
\* set, then TreeFs::remove_child detaches the child
Detach(op, p, child) ==
    IF remove_child_ok(p, child)
    THEN LET r == remove_child(p, child)
         IN  /\ heap' = [r.heap EXCEPT ![p].extra = touch(@)]
             /\ ino_to_node' = r.index
             /\ reply' = Reply(op, "OK")
    ELSE /\ reply' = Reply(op, "PANIC")
         /\ UNCHANGED <<heap, ino_to_node>>

Unlink(req, parent, name) ==
    /\ ~panicked
    /\ LET p == get_item_mut(parent)
       IN  IF p = None \/ ~heap[p].is_dir
           THEN /\ reply' = Reply("unlink", "ENOENT")
                /\ UNCHANGED <<heap, ino_to_node>>
           ELSE LET child == find_child_mut(p, name)
                IN  IF child = None
                    THEN /\ reply' = Reply("unlink", "ENOENT")
                         /\ UNCHANGED <<heap, ino_to_node>>
                    ELSE IF sticky_denied(heap[p].extra, heap[child].extra, req.uid)
                    THEN /\ reply' = Reply("unlink", "EACCES")
                         /\ UNCHANGED <<heap, ino_to_node>>
                    ELSE Detach("unlink", p, child)
    /\ UNCHANGED <<root, current_inode, current_file_handle, now>>

Rmdir(req, parent, name) ==
    /\ ~panicked
    /\ LET p == get_item_mut(parent)
       IN  IF p = None
           THEN /\ reply' = Reply("rmdir", "ENOENT")
                /\ UNCHANGED <<heap, ino_to_node>>
           ELSE IF ~check_access(heap[p].extra.uid, heap[p].extra.gid, heap[p].extra.perm,
                                 req.uid, req.gid, W_OK)
           THEN /\ reply' = Reply("rmdir", "EACCES")
                /\ UNCHANGED <<heap, ino_to_node>>
           ELSE LET child == find_child_mut(p, name)
                IN  IF child = None
                    THEN /\ reply' = Reply("rmdir", "ENOENT")
                         /\ UNCHANGED <<heap, ino_to_node>>
                    ELSE IF ~heap[child].is_dir
                    THEN /\ reply' = Reply("rmdir", "EACCES")
                         /\ UNCHANGED <<heap, ino_to_node>>
                    ELSE IF Len(children(child)) # 0
                    THEN /\ reply' = Reply("rmdir", "ENOTEMPTY")
                         /\ UNCHANGED <<heap, ino_to_node>>
                    ELSE IF sticky_denied(heap[p].extra, heap[child].extra, req.uid)
                    THEN /\ reply' = Reply("rmdir", "EACCES")
                         /\ UNCHANGED <<heap, ino_to_node>>
                    ELSE Detach("rmdir", p, child)
    /\ UNCHANGED <<root, current_inode, current_file_handle, now>>

\* ------------------------------------------------------------ ByteBuffer
Min(a, b) == IF a < b THEN a ELSE b

Zeros(n) == [i \in 1..n |-> 0]

\* set_rpos / set_wpos: the cursor is clamped to the buffer length
clamp_pos(pos, buf) == Min(pos, Len(buf))

\* Read::read into a zeroed buffer of buf_len bytes with the cursor at rpos:
\* min(len - rpos, buf_len) bytes are copied, the rest of the buffer stays 0
read_into(buf, rpos, buf_len) ==
    LET read_len == Min(Len(buf) - rpos, buf_len)
    IN  [i \in 1..buf_len |-> IF i <= read_len THEN buf[rpos + i] ELSE 0]

\* write_bytes with the cursor at wpos: resize to wpos + |bytes| if that is
\* longer, then overwrite from wpos
write_bytes(buf, wpos, bytes) ==
    LET size == Len(bytes) + wpos
        n == IF size > Len(buf) THEN size ELSE Len(buf)
    IN  [i \in 1..n |-> IF i > wpos /\ i <= wpos + Len(bytes) THEN bytes[i - wpos]
                        ELSE IF i <= Len(buf) THEN buf[i] ELSE 0]

\* --------------------------------------------------- mem_fs.rs, content
\* the bytes MemFs::read replies with
read_reply(buf, offset, size) ==
    LET read_size == Min(size, Len(buf))
    IN  read_into(buf, clamp_pos(offset, buf), read_size)

Read(ino, offset, size) ==
    /\ ~panicked
    /\ LET item == get_item_mut(ino)
       IN  IF item = None \/ heap[item].is_dir
           THEN reply' = Reply("read", "ENOENT")
           ELSE reply' = [Reply("read", "OK") EXCEPT
                             !.data = read_reply(heap[item].data, offset, size)]
    /\ UNCHANGED <<heap, root, ino_to_node, current_inode, current_file_handle, now>>

\* a write that ignores the offset and appends
write_data_append(buf, offset, data) == write_bytes(buf, Len(buf), data)

\* the buffer MemFs::write leaves
write_data(buf, offset, data) == write_bytes(buf, clamp_pos(offset, buf), data)

\* the attributes MemFs::write leaves: size is set to the buffer length
write_attr(attr, buf) == [attr EXCEPT !.size = Len(buf)]

Write(inode, offset, data) ==
    /\ ~panicked
    /\ IF ~(offset >= 0)
       THEN \* assert!(offset >= 0)
            /\ reply' = Reply("write", "PANIC")
            /\ UNCHANGED heap
       ELSE LET item == get_item_mut(inode)
            IN  IF item = None \/ heap[item].is_dir
                THEN /\ reply' = Reply("write", "ENOENT")
                     /\ UNCHANGED heap
                ELSE LET buf == write_data(heap[item].data, offset, data)
                     IN  /\ Len(buf) <= MaxLen
                         /\ heap' = [heap EXCEPT ![item].data = buf,
                                                 ![item].extra = write_attr(@, buf)]
                         /\ reply' = [Reply("write", "OK") EXCEPT !.written = Len(data)]
    /\ UNCHANGED <<root, ino_to_node, current_inode, current_file_handle, now>>

CopyFileRange(src_inode, src_offset, dest_inode, dest_offset, size) ==
    /\ ~panicked
    /\ LET src == get_item_mut(src_inode)
           dest == get_item_mut(dest_inode)
       IN  IF src = None \/ dest = None
           THEN /\ reply' = Reply("copy_file_range", "ENOENT")
                /\ UNCHANGED heap
           ELSE LET file_size == heap[src].extra.size
                    read_size == Min(size, IF file_size > src_offset
                                           THEN file_size - src_offset ELSE 0)
                    data == read_into(heap[src].data,
                                      clamp_pos(src_offset, heap[src].data), read_size)
                    buf == write_bytes(heap[dest].data,
                                       clamp_pos(dest_offset, heap[dest].data), data)
                IN  /\ Len(buf) <= MaxLen
                    /\ heap' = [heap EXCEPT ![dest].data = buf,
                                            ![dest].extra = touch(@)]
                    /\ reply' = [Reply("copy_file_range", "OK") EXCEPT
                                    !.written = Len(data)]
    /\ UNCHANGED <<root, ino_to_node, current_inode, current_file_handle, now>>

\* the reply of MemFs::getattr
getattr_reply(ino) ==
    LET item == get_item_mut(ino)
    IN  IF item = None THEN Reply("getattr", "ENOENT")
        ELSE ReplyAttr("getattr", heap[item].extra)

Getattr(ino) ==
    /\ ~panicked
    /\ reply' = getattr_reply(ino)
    /\ UNCHANGED <<heap, root, ino_to_node, current_inode, current_file_handle, now>>

\* the reply of MemFs::lookup
lookup_reply(req, parent, name) ==
    LET p == get_item_mut(parent)
    IN  IF p = None THEN Reply("lookup", "ENOENT")
        ELSE IF ~check_access(heap[p].extra.uid, heap[p].extra.gid, heap[p].extra.perm,
                              req.uid, req.gid, X_OK)
        THEN Reply("lookup", "EACCES")
        ELSE LET child == find_child_mut(p, name)
             IN  IF child = None THEN Reply("lookup", "ENOENT")
                 ELSE ReplyAttr("lookup", heap[child].extra)

Lookup(req, parent, name) ==
    /\ ~panicked
    /\ reply' = lookup_reply(req, parent, name)
    /\ UNCHANGED <<heap, root, ino_to_node, current_inode, current_file_handle, now>>

\* the reply of MemFs::access
access_reply(req, inode, mask) ==
    LET item == get_item_mut(inode)
    IN  IF item = None THEN Reply("access", "ENOENT")
        ELSE IF check_access(heap[item].extra.uid, heap[item].extra.gid,
                             heap[item].extra.perm, req.uid, req.gid, mask)
        THEN Reply("access", "OK")
        ELSE Reply("access", "EACCES")

Access(req, inode, mask) ==
    /\ ~panicked
    /\ reply' = access_reply(req, inode, mask)
    /\ UNCHANGED <<heap, root, ino_to_node, current_inode, current_file_handle, now>>

\* a derivation that never honours FMODE_EXEC
access_mask_no_exec(flags, exec) ==
    LET acc == BitAnd(flags, O_ACCMODE)
    IN  IF acc = O_RDONLY
        THEN IF BitAnd(flags, O_TRUNC) # 0 THEN [err |-> "EACCES", mask |-> F_OK]
             ELSE [err |-> "OK", mask |-> R_OK]
        ELSE IF acc = O_WRONLY THEN [err |-> "OK", mask |-> W_OK]
        ELSE IF acc = O_RDWR THEN [err |-> "OK", mask |-> BitOr(R_OK, W_OK)]
        ELSE [err |-> "EINVAL", mask |-> F_OK]

\* the access mask open and opendir derive from the flags, as [err, mask]:
\* EACCES for O_RDONLY with O_TRUNC, EINVAL for no valid access mode; exec
\* tells whether FMODE_EXEC is honoured (open) or not (opendir)
access_mask(flags, exec) ==
    LET acc == BitAnd(flags, O_ACCMODE)
    IN  IF acc = O_RDONLY
        THEN IF BitAnd(flags, O_TRUNC) # 0 THEN [err |-> "EACCES", mask |-> F_OK]
             ELSE IF exec /\ BitAnd(flags, FMODE_EXEC) # 0 THEN [err |-> "OK", mask |-> X_OK]
             ELSE [err |-> "OK", mask |-> R_OK]
        ELSE IF acc = O_WRONLY THEN [err |-> "OK", mask |-> W_OK]
        ELSE IF acc = O_RDWR THEN [err |-> "OK", mask |-> BitOr(R_OK, W_OK)]
        ELSE [err |-> "EINVAL", mask |-> F_OK]

Open(req, inode, flags) ==
    /\ ~panicked
    /\ current_file_handle < MaxFh
    /\ LET am == access_mask(flags, TRUE)
           item == get_item_mut(inode)
       IN  IF am.err # "OK"
           THEN /\ reply' = Reply("open", am.err)
                /\ UNCHANGED current_file_handle
           ELSE IF item = None
           THEN /\ reply' = Reply("open", "ENOENT")
                /\ UNCHANGED current_file_handle
           ELSE IF check_access(heap[item].extra.uid, heap[item].extra.gid,
                                heap[item].extra.perm, req.uid, req.gid, am.mask)
           THEN /\ current_file_handle' = allocate_next_file_handle(current_file_handle)
                /\ reply' = [Reply("open", "OK") EXCEPT !.fh = current_file_handle']
           ELSE /\ reply' = Reply("open", "EACCES")
                /\ UNCHANGED current_file_handle
    /\ UNCHANGED <<heap, root, ino_to_node, current_inode, now>>

\* MemFs::opendir.  When check_access refuses, the handler returns without
\* using its reply object: "NOREPLY".
Opendir(req, inode, flags) ==
    /\ ~panicked
    /\ current_file_handle < MaxFh
    /\ LET am == access_mask(flags, FALSE)
           item == get_item_mut(inode)
       IN  IF am.err # "OK"
           THEN /\ reply' = Reply("opendir", am.err)
                /\ UNCHANGED current_file_handle
           ELSE IF item = None
           THEN /\ reply' = Reply("opendir", "ENOENT")
                /\ UNCHANGED current_file_handle
           ELSE IF check_access(heap[item].extra.uid, heap[item].extra.gid,
                                heap[item].extra.perm, req.uid, req.gid, am.mask)
           THEN /\ current_file_handle' = allocate_next_file_handle(current_file_handle)
                /\ reply' = [Reply("opendir", "OK") EXCEPT !.fh = current_file_handle']
           ELSE /\ reply' = Reply("opendir", "NOREPLY")
                /\ UNCHANGED current_file_handle
    /\ UNCHANGED <<heap, root, ino_to_node, current_inode, now>>

\* a listing with the youngest child first
readdir_entries_youngest_first(n) ==
    <<[ino |-> heap[n].ino, kind |-> "Directory", name |-> "."]>>
    \o (IF get_parent(n) # None
        THEN <<[ino |-> heap[get_parent(n)].ino, kind |-> "Directory", name |-> ".."]>>
        ELSE <<>>)
    \o [i \in 1..Len(children(n)) |->
          LET c == children(n)[Len(children(n)) + 1 - i]
          IN  [ino |-> heap[c].ino,
               kind |-> IF heap[c].is_dir THEN "Directory" ELSE "RegularFile",
               name |-> heap[c].name]]

\* the entries vector MemFs::readdir builds for directory n
readdir_entries(n) ==
    <<[ino |-> heap[n].ino, kind |-> "Directory", name |-> "."]>>
    \o (IF get_parent(n) # None
        THEN <<[ino |-> heap[get_parent(n)].ino, kind |-> "Directory", name |-> ".."]>>
        ELSE <<>>)
    \o [i \in 1..Len(children(n)) |->
          LET c == children(n)[i]
          IN  [ino |-> heap[c].ino,
               kind |-> IF heap[c].is_dir THEN "Directory" ELSE "RegularFile",
               name |-> heap[c].name]]

\* the reply of MemFs::readdir: the entries from position offset on, each
\* with the offset of its successor, as long as reply.add takes them; room
\* is the number of entries the reply buffer has room for.  A negative
\* offset, cast to usize, skips every entry.
readdir_reply(ino, offset, room) ==
    LET item == get_item_mut(ino)
    IN  IF item = None THEN Reply("readdir", "ENOENT")
        ELSE IF ~heap[item].is_dir THEN Reply("readdir", "ENOENT")
        ELSE LET entries == readdir_entries(item)
                 left == IF offset < 0 \/ offset > Len(entries) THEN 0
                         ELSE Len(entries) - offset
             IN  [Reply("readdir", "OK") EXCEPT
                     !.entries = [k \in 1..Min(room, left) |->
                                     [ino |-> entries[offset + k].ino,
                                      offset |-> offset + k,
                                      kind |-> entries[offset + k].kind,
                                      name |-> entries[offset + k].name]]]

Readdir(ino, offset, room) ==
    /\ ~panicked
    /\ reply' = readdir_reply(ino, offset, room)
    /\ UNCHANGED <<heap, root, ino_to_node, current_inode, current_file_handle, now>>

\* time passes between two requests
Tick ==
    /\ ~panicked
    /\ now < MaxTime
    /\ now' = now + 1
    /\ UNCHANGED <<heap, root, ino_to_node, current_inode, current_file_handle, reply>>

\* --------------------------------------------------- mem_fs.rs, setattr
\* Option::None for a numeric argument
Nil == -1

\* TimeOrNow::Now; a time argument t >= 0 is TimeOrNow::SpecificTime(t)
Now == -2

\* get_groups(req.pid()): the groups the requesting process is in
get_groups(req) == req.groups

\* the chmod branch: the outcome as [err, node]
setattr_chmod(n, req, mode) ==
    LET attr == n.extra
    IN  IF req.uid # 0 /\ req.uid # attr.uid THEN [err |-> "EPERM", node |-> n]
        ELSE IF req.uid # 0 /\ req.gid # attr.gid /\ attr.gid \notin get_groups(req)
        THEN [err |-> "OK", node |-> [n EXCEPT !.extra.perm = BitClear(mode, S_ISGID) % U16,
                                               !.extra.ctime = now]]
        ELSE [err |-> "OK", node |-> [n EXCEPT !.extra.perm = mode % U16,
                                               !.extra.ctime = now]]

\* a chown branch without the test that only the owner may change the group
setattr_chown_any_gid(n, req, uid, gid) ==
    LET attr == n.extra
        p0 == attr.perm
        p1 == IF BitAnd(p0, S_IXUSR + S_IXGRP + S_IXOTH) # 0 THEN clear_suid_sgid(p0) ELSE p0
        p2 == IF uid # Nil THEN BitClear(p1, S_ISUID) ELSE p1
        p3 == IF gid # Nil /\ req.uid # 0 THEN BitClear(p2, S_ISGID) ELSE p2
    IN  IF gid # Nil /\ req.uid # 0 /\ gid \notin get_groups(req)
        THEN [err |-> "EPERM", node |-> n]
        ELSE IF uid # Nil /\ req.uid # 0 /\ ~(uid = attr.uid /\ req.uid = attr.uid)
        THEN [err |-> "EPERM", node |-> n]
        ELSE [err |-> "OK",
              node |-> [n EXCEPT !.extra.perm = p3,
                                 !.extra.uid = IF uid # Nil THEN uid ELSE @,
                                 !.extra.gid = IF gid # Nil THEN gid ELSE @,
                                 !.extra.ctime = now]]

\* the chown branch
setattr_chown(n, req, uid, gid) ==
    LET attr == n.extra
        p0 == attr.perm
        p1 == IF BitAnd(p0, S_IXUSR + S_IXGRP + S_IXOTH) # 0 THEN clear_suid_sgid(p0) ELSE p0
        p2 == IF uid # Nil THEN BitClear(p1, S_ISUID) ELSE p1
        p3 == IF gid # Nil /\ req.uid # 0 THEN BitClear(p2, S_ISGID) ELSE p2
    IN  IF gid # Nil /\ req.uid # 0 /\ gid \notin get_groups(req)
        THEN [err |-> "EPERM", node |-> n]
        ELSE IF uid # Nil /\ req.uid # 0 /\ ~(uid = attr.uid /\ req.uid = attr.uid)
        THEN [err |-> "EPERM", node |-> n]
        ELSE IF gid # Nil /\ req.uid # 0 /\ req.uid # attr.uid
        THEN [err |-> "EPERM", node |-> n]
        ELSE [err |-> "OK",
              node |-> [n EXCEPT !.extra.perm = p3,
                                 !.extra.uid = IF uid # Nil THEN uid ELSE @,
                                 !.extra.gid = IF gid # Nil THEN gid ELSE @,
                                 !.extra.ctime = now]]

\* the truncate step: size 0 clears the buffer and leaves the attributes;
\* another size keeps old_data_vec[..size], which panics past the length
setattr_truncate(n, size) ==
    IF size = 0 THEN [err |-> "OK", node |-> [n EXCEPT !.data = <<>>]]
    ELSE IF size > Len(n.data) THEN [err |-> "PANIC", node |-> n]
    ELSE [err |-> "OK",
          node |-> [n EXCEPT !.data = SubSeq(n.data, 1, size),
                             !.extra.size = size,
                             !.extra.ctime = now,
                             !.extra.mtime = now,
                             !.extra.perm = clear_suid_sgid(@)]]

\* the permission test of one utimens step (atime or mtime)
setattr_utimens(n, req, time) ==
    LET attr == n.extra
    IN  IF attr.uid # req.uid /\ req.uid # 0 /\ time # Now THEN "EPERM"
        ELSE IF attr.uid # req.uid
                /\ ~check_access(attr.uid, attr.gid, attr.perm, req.uid, req.gid, W_OK)
        THEN "EACCES"
        ELSE "OK"

\* TimeOrNow as a time
time_of(time) == IF time = Now THEN now ELSE time

\* the steps after chmod and chown: size, then atime, then mtime; a step
\* that fails replies the error and keeps what the steps before it did
setattr_rest(n, req, size, atime, mtime) ==
    LET t == IF size # Nil THEN setattr_truncate(n, size) ELSE [err |-> "OK", node |-> n]
        a == IF atime # Nil THEN setattr_utimens(t.node, req, atime) ELSE "OK"
        na == IF atime # Nil
              THEN [t.node EXCEPT !.extra.atime = time_of(atime), !.extra.ctime = now]
              ELSE t.node
        m == IF mtime # Nil THEN setattr_utimens(na, req, mtime) ELSE "OK"
        nm == IF mtime # Nil
              THEN [na EXCEPT !.extra.mtime = time_of(mtime), !.extra.ctime = now]
              ELSE na
    IN  IF t.err # "OK" THEN t
        ELSE IF a # "OK" THEN [err |-> a, node |-> t.node]
        ELSE IF m # "OK" THEN [err |-> m, node |-> na]
        ELSE [err |-> "OK", node |-> nm]

Setattr(req, inode, mode, uid, gid, size, atime, mtime) ==
    /\ ~panicked
    /\ LET item == get_item_mut(inode)
       IN  IF item = None
           THEN /\ reply' = Reply("setattr", "ENOENT")
                /\ UNCHANGED heap
           ELSE LET r == IF mode # Nil THEN setattr_chmod(heap[item], req, mode)
                         ELSE IF uid # Nil \/ gid # Nil
                         THEN setattr_chown(heap[item], req, uid, gid)
                         ELSE setattr_rest(heap[item], req, size, atime, mtime)
                IN  /\ heap' = [heap EXCEPT ![item] = r.node]
                    /\ reply' = IF r.err = "OK" THEN ReplyAttr("setattr", r.node.extra)
                                ELSE Reply("setattr", r.err)
    /\ UNCHANGED <<root, ino_to_node, current_inode, current_file_handle, now>>

\* ----------------------------------------------------- request inputs
Names == {"a", "b"}
Inos == 1..MaxIno
RootReq == [uid |-> 0, gid |-> 0, groups |-> {0}]
UserReq == [uid |-> 1, gid |-> 1, groups |-> {1}]
User2Req == [uid |-> 2, gid |-> 2, groups |-> {2}]
\* mknod: regular file 0o644, directory 0o755, FIFO 0o644
Modes == {S_IFREG + 420, S_IFDIR + 493, 4096 + 420}
\* a parent other than the given one, for the cross-directory rename
Other(parent) == (parent % MaxIno) + 1

\* --------------------------------------------- the tree specification
\* Requests come from root, which passes every permission check, so every
\* shape of the tree some caller can produce is produced here.
Next ==
    \/ FsInit
    \/ \E parent \in Inos, name \in Names, mode \in Modes :
          Mknod(RootReq, parent, name, mode)
    \/ \E parent \in Inos, name \in Names, flags \in {O_RDWR, O_ACCMODE} :
          Create(RootReq, parent, name, S_IFREG + 420, flags)
    \/ \E parent \in Inos, name \in Names : Mkdir(RootReq, parent, name, 493)
    \/ \E parent \in Inos, name \in Names, new_name \in Names :
          \E new_parent \in {parent, Other(parent)} :
             Rename(parent, name, new_parent, new_name)
    \/ \E parent \in Inos, name \in Names : Unlink(RootReq, parent, name)
    \/ \E parent \in Inos, name \in Names : Rmdir(RootReq, parent, name)

Spec == Init /\ [][Next]_vars

\* ------------------------------------------ the content specification
Bytes == {1, 2}
Datas == {<<>>} \cup {<<x>> : x \in Bytes} \cup {<<x, y>> : x \in Bytes, y \in Bytes}
Offsets == 0..(MaxLen + 1)

\* One file "a" and one directory "b" under the root, made by root; then
\* reads, writes and truncations on every inode.
NextData ==
    \/ FsInit
    \/ Create(RootReq, 1, "a", S_IFREG + 420, O_RDWR)
    \/ Mkdir(RootReq, 1, "b", 493)
    \/ \E ino \in Inos, offset \in Offsets, size \in Offsets : Read(ino, offset, size)
    \/ \E ino \in Inos, offset \in Offsets, data \in Datas : Write(ino, offset, data)
    \/ \E ino \in Inos, size \in Offsets :
          Setattr(RootReq, ino, Nil, Nil, Nil, size, Nil, Nil)
    \/ \E ino \in Inos : Getattr(ino)

SpecData == Init /\ [][NextData]_vars

\* --------------------------------------- the attribute specification
\* chmod to 0o4755 or not at all
AttrModes == {Nil, 2541}
\* chown to uid 1 and gid 1 or not at all
AttrIds == {Nil, 1}
AttrSizes == {Nil, 0, 1}
\* no time, the current time, the epoch
AttrTimes == {Nil, Now, UNIX_EPOCH}

\* One file "a" under the root, written by root; then setattr with every
\* combination of fields, from root and from another user, while time passes.
NextAttr ==
    \/ FsInit
    \/ Create(RootReq, 1, "a", S_IFREG + 420, O_RDWR)
    \/ \E data \in {<<1>>, <<1, 2>>} : Write(2, 0, data)
    \/ Tick
    \/ \E req \in {RootReq, UserReq}, mode \in AttrModes, id \in AttrIds,
          size \in AttrSizes, atime \in AttrTimes, mtime \in AttrTimes \ {Now} :
          Setattr(req, 2, mode, id, id, size, atime, mtime)
    \/ Setattr(RootReq, 3, Nil, Nil, Nil, 0, Nil, Nil)
    \/ \E ino \in {2, 3} : Getattr(ino)

SpecAttr == Init /\ [][NextAttr]_vars

\* ------------------------------------------- the error specification
\* directory 0o700, sticky directory 0o1777, FIFO 0o644
ErrModes == {S_IFDIR + 448, S_IFDIR + 1023, 4096 + 420}
ErrReqs == {RootReq, UserReq}
ErrFlags == {O_RDONLY, O_WRONLY, O_RDONLY + O_TRUNC, O_ACCMODE}

\* Every request of the error claim, from root and from another user, on
\* existing and missing inodes, while time passes: each errno of each
\* handler is replied somewhere.
NextErr ==
    \/ FsInit
    \/ Tick
    \/ \E req \in ErrReqs, parent \in Inos, mode \in ErrModes :
          Mknod(req, parent, "a", mode)
    \/ \E req \in ErrReqs, parent \in Inos, flags \in {O_RDWR, O_ACCMODE} :
          Create(req, parent, "a", S_IFREG + 420, flags)
    \/ \E req \in ErrReqs, parent \in Inos : Mkdir(req, parent, "a", 493)
    \/ \E parent \in Inos : \E new_parent \in {parent, Other(parent)} :
          Rename(parent, "a", new_parent, "a")
    \/ \E req \in ErrReqs, parent \in Inos : Unlink(req, parent, "a")
    \/ \E req \in ErrReqs, parent \in Inos : Rmdir(req, parent, "a")
    \/ \E req \in ErrReqs, parent \in Inos : Lookup(req, parent, "a")
    \/ \E req \in ErrReqs, ino \in Inos, flags \in ErrFlags : Open(req, ino, flags)
    \/ \E req \in ErrReqs, ino \in Inos, flags \in ErrFlags : Opendir(req, ino, flags)
    \/ \E req \in ErrReqs, ino \in Inos, mask \in {W_OK, X_OK} :
          Access(req, ino, mask)
    \/ \E ino \in Inos : Read(ino, 0, 1)
    \/ \E ino \in Inos : Write(ino, 0, <<1>>)

SpecErr == Init /\ [][NextErr]_vars

\* ------------------------------------------ the sticky specification
StickyReqs == {RootReq, UserReq, User2Req}
\* one name: a directory and the item in it may both bear it
StickyNames == {"a"}

\* Root and two other users create and remove files and directories, in
\* the root directory and in sticky directories of their own; root may make
\* the root directory sticky (0o1777) or take its search bits away (0o666).
NextSticky ==
    \/ FsInit
    \/ \E mode \in {S_IFDIR + 1023, S_IFDIR + 438} :
          Setattr(RootReq, 1, mode, Nil, Nil, Nil, Nil, Nil)
    \/ \E req \in StickyReqs, parent \in {1, 2}, name \in StickyNames :
          Mknod(req, parent, name, S_IFDIR + 1023)
    \/ \E req \in StickyReqs, parent \in {1, 2}, name \in StickyNames :
          Create(req, parent, name, S_IFREG + 420, O_RDWR)
    \/ \E req \in StickyReqs, parent \in {1, 2}, name \in StickyNames :
          Mkdir(req, parent, name, 493)
    \/ \E req \in StickyReqs, parent \in {1, 2}, name \in StickyNames :
          Unlink(req, parent, name)
    \/ \E req \in StickyReqs, parent \in {1, 2}, name \in StickyNames :
          Rmdir(req, parent, name)

SpecSticky == Init /\ [][NextSticky]_vars

\* -------------------------------------------- the name specification
NameReqs == {RootReq, UserReq}
\* readdir from every position of the longest listing and one past it
ReaddirOffsets == 0..MaxIno
\* a reply buffer with room for one entry, or for every entry
ReaddirRooms == {1, MaxIno + 1}

\* Root builds a tree of files and directories and renames in it; root may
\* take the write bits (0o555) or the search bits (0o666) of the root
\* directory away; root and another user remove directories.
NextName ==
    \/ FsInit
    \/ \E mode \in {S_IFDIR + 365, S_IFDIR + 438} :
          Setattr(RootReq, 1, mode, Nil, Nil, Nil, Nil, Nil)
    \/ \E parent \in {1, 2}, name \in Names :
          Create(RootReq, parent, name, S_IFREG + 420, O_RDWR)
    \/ \E parent \in {1, 2}, name \in Names : Mkdir(RootReq, parent, name, 493)
    \/ \E parent \in {1, 2}, name \in Names, new_name \in Names :
          \E new_parent \in {parent, Other(parent)} :
             Rename(parent, name, new_parent, new_name)
    \/ \E req \in NameReqs, parent \in {1, 2}, name \in Names :
          Rmdir(req, parent, name)

SpecName == Init /\ [][NextName]_vars

\* Directory listings: the root caller creates, renames and removes entries
\* and reads the directories
NextList ==
    \/ FsInit
    \/ \E parent \in {1, 2}, name \in Names :
          Create(RootReq, parent, name, S_IFREG + 420, O_RDWR)
    \/ \E parent \in {1, 2}, name \in Names : Mkdir(RootReq, parent, name, 493)
    \/ \E parent \in {1, 2}, name \in Names, new_name \in Names :
          Rename(parent, name, parent, new_name)
    \/ \E parent \in {1, 2}, name \in Names : Unlink(RootReq, parent, name)
    \/ \E parent \in {1, 2}, name \in Names : Rmdir(RootReq, parent, name)
    \/ \E ino \in Inos, offset \in ReaddirOffsets, room \in ReaddirRooms :
          Readdir(ino, offset, room)

SpecList == Init /\ [][NextList]_vars

\* Copies: a file "a" and a file or a directory "b" under the root, in
\* either order; writes and truncations of both, copies from each to itself
\* and to the other
CopyInos == {2, 3}
CopyOffsets == {0, 1}
NextCopy ==
    \/ FsInit
    \/ Create(RootReq, 1, "a", S_IFREG + 420, O_RDWR)
    \/ Create(RootReq, 1, "b", S_IFREG + 420, O_RDWR)
    \/ Mkdir(RootReq, 1, "b", 493)
    \/ \E ino \in CopyInos : Write(ino, 0, <<1>>)
    \/ \E ino \in CopyInos, size \in CopyOffsets :
          Setattr(RootReq, ino, Nil, Nil, Nil, size, Nil, Nil)
    \/ \E src_inode \in CopyInos, src_offset \in CopyOffsets, dest_inode \in CopyInos,
          dest_offset \in CopyOffsets :
          CopyFileRange(src_inode, src_offset, dest_inode, dest_offset, 1)

SpecCopy == Init /\ [][NextCopy]_vars

\* Renames among three names: root makes files and directories, takes the
\* search permission from the root directory and gives it back, and renames
\* within a directory and across directories
RenameNames == {"a", "b", "c"}
NextRename ==
    \/ FsInit
    \/ \E mode \in {S_IFDIR + 365, S_IFDIR + 438} :
          Setattr(RootReq, 1, mode, Nil, Nil, Nil, Nil, Nil)
    \/ \E parent \in {1, 2}, name \in RenameNames :
          Create(RootReq, parent, name, S_IFREG + 420, O_RDWR)
    \/ \E name \in RenameNames : Mkdir(RootReq, 1, name, 493)
    \/ \E parent \in {1, 2}, name \in RenameNames, new_name \in RenameNames :
          \E new_parent \in {parent, Other(parent)} :
             Rename(parent, name, new_parent, new_name)

SpecRename == Init /\ [][NextRename]_vars

\* Ownership: root or uid 1 makes the file "a"; root gives items to uid 2;
\* uid 1, member of groups 1 and 2, and uid 2, member of group 2, chmod to
\* 0o4755 and chown every item to every uid and gid
ChownReq == [uid |-> 1, gid |-> 1, groups |-> {1, 2}]
ChownReqs == {ChownReq, User2Req}
ChownIds == {Nil, 0, 1, 2}
ChownInos == {1, 2}
NextChown ==
    \/ FsInit
    \/ \E req \in {RootReq, ChownReq} : Create(req, 1, "a", S_IFREG + 420, O_RDWR)
    \/ \E ino \in ChownInos : Setattr(RootReq, ino, Nil, 2, 2, Nil, Nil, Nil)
    \/ \E req \in ChownReqs, ino \in ChownInos, mode \in AttrModes,
          uid \in ChownIds, gid \in ChownIds :
          Setattr(req, ino, mode, uid, gid, Nil, Nil, Nil)

SpecChown == Init /\ [][NextChown]_vars

\* Opens: root and another user make files rw-r--r-- and rwx--x--x under
\* the root and open every inode with every kind of flags
OpenModes == {S_IFREG + 420, S_IFREG + 457}
OpenFlags ==
    {O_RDONLY, O_WRONLY, O_RDWR, O_ACCMODE, O_RDONLY + O_TRUNC,
     O_RDONLY + FMODE_EXEC, O_WRONLY + FMODE_EXEC}
NextOpen ==
    \/ FsInit
    \/ \E req \in NameReqs, name \in Names, mode \in OpenModes : Mknod(req, 1, name, mode)
    \/ \E req \in NameReqs, ino \in Inos, flags \in OpenFlags : Open(req, ino, flags)

SpecOpen == Init /\ [][NextOpen]_vars

\* ------------------------------------- the specification of check_access
\* The function is applied to arguments held in reply: owners and callers
\* root and not, equal and different, groups equal and different, every
\* mask of R_OK, W_OK, X_OK, and perms of every combination of the triads
\* ---, --x, rw-, rwx, plain or with file-type and sticky bits.
AccessUids == {0, 1, 2}
AccessGids == {0, 1}
AccessMasks == 0..(R_OK + W_OK + X_OK)
AccessTriads == {0, 1, 6, 7}
AccessPerms ==
    {hi + (64 * o) + (8 * g) + t :
        hi \in {0, S_IFDIR + S_ISVTX}, o \in AccessTriads, g \in AccessTriads,
        t \in AccessTriads}

InitAccess ==
    /\ heap = <<>>
    /\ root = None
    /\ ino_to_node = <<>>
    /\ current_inode = 1
    /\ current_file_handle = 0
    /\ now = 1
    /\ reply \in [op : {"args"}, file_uid : {0, 1}, file_gid : AccessGids,
                  file_mode : AccessPerms, uid : AccessUids, gid : AccessGids,
                  access_mask : AccessMasks, granted : {FALSE}]

CheckAccess ==
    /\ reply.op = "args"
    /\ reply' = [reply EXCEPT
                    !.op = "check_access",
                    !.granted = check_access(reply.file_uid, reply.file_gid,
                                             reply.file_mode, reply.uid, reply.gid,
                                             reply.access_mask)]
    /\ UNCHANGED <<heap, root, ino_to_node, current_inode, current_file_handle, now>>

NextAccess == CheckAccess

SpecAccess == InitAccess /\ [][NextAccess]_vars

\* ============================================================ properties
Nodes == DOMAIN heap

Range(f) == {f[i] : i \in DOMAIN f}

RECURSIVE Closure(_)
Closure(S) ==
    LET T == S \cup UNION {Range(heap[n].children) : n \in S}
    IN  IF T = S THEN S ELSE Closure(T)

\* the nodes reachable from the root through parent-to-child edges
Reach == IF root = None THEN {} ELSE Closure({root})

\* C1: every item the inode index holds is reachable from the root; an
\* item that left the tree, alone or under a detached ancestor, has no
\* entry in the index.
C1_IndexedIsReachable ==
    \A i \in DOMAIN ino_to_node : ino_to_node[i] \in Reach

\* C2: whenever unlink or rmdir takes an item out of the index, the item
\* has no children at that moment, and unlink never takes out a directory.
C2_OnlyFilesAndEmptyDirs ==
    [][\A i \in DOMAIN ino_to_node \ DOMAIN ino_to_node' :
          /\ heap[ino_to_node[i]].children = <<>>
          /\ reply'.op = "unlink" => ~heap[ino_to_node[i]].is_dir]_vars

\* C3: for every item reachable from the root, the index lookup of its
\* ino returns that very item.
C3_IndexResolvesReachable ==
    \A n \in Reach : get_item_mut(heap[n].ino) = n

\* C3 witness: a tree of depth two: the root, a directory and an item in it
C3_Witness ==
    /\ Cardinality(Reach) = 3
    /\ Len(heap) = 3
    /\ \E n \in Reach : n # root /\ heap[n].children # <<>>

\* C4: every child's parent link resolves to the directory that lists it,
\* every non-root item of the tree is listed by exactly one directory,
\* exactly once, and the store's remove never finds a parent mismatch.
C4_ParentChildAgree ==
    /\ \A d \in Nodes : \A i \in DOMAIN heap[d].children :
          get_parent(heap[d].children[i]) = heap[d].node
    /\ \A c \in Reach \ {root} :
          Cardinality({<<d, i>> \in Nodes \X (1..Len(heap)) :
                          i \in DOMAIN heap[d].children /\ heap[d].children[i] = c}) = 1
    /\ reply.op \in {"unlink", "rmdir"} => reply.err # "PANIC"

\* C4 witness: unlink has just detached one of the two items made so far
C4_Witness ==
    /\ reply = Reply("unlink", "OK")
    /\ \E n \in Nodes : n \notin Reach /\ heap[n].ino \in 2..3
    /\ Cardinality(Reach) = 2

\* C5: no directory holds two children with the same name.
C5_SiblingNamesUnique ==
    \A d \in Nodes : \A i, j \in DOMAIN heap[d].children :
        i # j => heap[heap[d].children[i]].name # heap[heap[d].children[j]].name

\* C5 witness: a directory with two children that has just refused a
\* rename onto a taken name
C5_Witness ==
    /\ reply = Reply("rename", "EEXIST")
    /\ \E d \in Nodes : Len(heap[d].children) = 2

\* the root is ino 1, a directory without a parent, and the only item
\* the index has for ino 1
RootOk ==
    /\ root \in Nodes
    /\ heap[root].ino = 1
    /\ heap[root].is_dir
    /\ get_parent(root) = None
    /\ get_item_mut(1) = root
    /\ \A n \in Nodes : heap[n].ino = 1 => n = root
    /\ \A d \in Nodes : root \notin Range(heap[d].children)

\* C6: init leaves a root; once there is a root it is ino 1, a directory
\* with no parent, the only one, and no request replaces it.
C6_OneRoot ==
    [][/\ reply'.op = "init" => root' # None
       /\ root' # None => RootOk'
       /\ root # None => root' = root]_vars

\* C6 witness: init again on a root that has children
C6_Witness ==
    /\ reply.op = "init"
    /\ root # None
    /\ heap[root].children # <<>>

\* C7: every item made by mknod, mkdir or create gets an ino greater than
\* every ino given out before, never 1, and no two items that ever existed
\* share an ino.
C7_InodesNeverReused ==
    [][/\ \A n \in (DOMAIN heap') \ (DOMAIN heap) :
             n # root' =>
                /\ heap'[n].ino > 1
                /\ \A m \in DOMAIN heap : heap'[n].ino > heap[m].ino
       /\ \A m, n \in DOMAIN heap' : m # n => heap'[m].ino # heap'[n].ino]_vars

\* C7 witness: ino 2 was freed by a removal and a later item got ino 3
C7_Witness ==
    /\ Len(heap) = 3
    /\ 2 \notin DOMAIN ino_to_node
    /\ 3 \in DOMAIN ino_to_node

\* C8: for every item the block count is the size divided by 512, rounded up.
C8_BlocksMatchSize ==
    \A n \in Nodes :
        heap[n].extra.blocks = (heap[n].extra.size + BLOCK_SIZE - 1) \div BLOCK_SIZE

\* content[offset .. offset + n), 0-based
Slice(buf, offset, n) == [i \in 1..n |-> buf[offset + i]]

\* C9: a successful read(ino, offset, size) replies exactly the bytes
\* content[offset .. offset + min(size, len - offset)), and no bytes when
\* offset is at or beyond len.
C9_ReadExactSlice ==
    [][\A ino \in Inos, offset \in Offsets, size \in Offsets :
          (Read(ino, offset, size) /\ reply'.err = "OK") =>
             LET buf == heap[get_item_mut(ino)].data
             IN  reply'.data =
                    IF offset >= Len(buf) THEN <<>>
                    ELSE Slice(buf, offset, Min(size, Len(buf) - offset))]_vars

\* C10: a successful write(ino, offset, D) on content B puts D at
\* [offset, offset + |D|), keeps every other byte of B, makes the buffer
\* length and the reported size max(|B|, offset + |D|) and replies |D|,
\* for every offset, also past |B| (stated here for a D that is not empty).
C10_WriteAtOffset ==
    [][\A ino \in Inos, offset \in Offsets, data \in Datas \ {<<>>} :
          (Write(ino, offset, data) /\ reply'.err = "OK") =>
             LET item == get_item_mut(ino)
                 B == heap[item].data
                 B1 == heap'[item].data
                 n == IF Len(B) > offset + Len(data) THEN Len(B) ELSE offset + Len(data)
             IN  /\ Len(B1) = n
                 /\ heap'[item].extra.size = n
                 /\ reply'.written = Len(data)
                 /\ \A i \in 1..Len(data) : B1[offset + i] = data[i]
                 /\ \A i \in 1..Len(B) :
                       (i <= offset \/ i > offset + Len(data)) => B1[i] = B[i]]_vars

\* the regular files the index holds
Files == {n \in Range(ino_to_node) : ~heap[n].is_dir}

\* C11: write(ino, 0, D) on a regular file, whatever it held, followed at
\* once by read(ino, 0, |D|) returns exactly D.
C11_WriteReadRoundTrip ==
    [][\A ino \in Inos, data \in Datas :
          (Write(ino, 0, data) /\ reply'.err = "OK") =>
             read_reply(heap'[get_item_mut(ino)].data, 0, Len(data)) = data]_vars

\* C11 witness: a two-byte write has just landed in a file that now holds
\* three bytes
C11_Witness ==
    /\ reply.op = "write" /\ reply.err = "OK" /\ reply.written = 2
    /\ \E n \in Files : Len(heap[n].data) = 3

\* C12: a successful setattr(ino, size = s) on a regular file of length L,
\* 0 <= s <= L, leaves reported size s and the first s bytes of the old
\* content, clears SUID, and clears SGID exactly when group-execute is set.
C12_TruncateSetsSize ==
    [][\A ino \in Inos, s \in Offsets :
          LET item == get_item_mut(ino)
          IN  (/\ Setattr(RootReq, ino, Nil, Nil, Nil, s, Nil, Nil)
               /\ reply'.err = "OK"
               /\ ~heap[item].is_dir
               /\ s <= Len(heap[item].data)) =>
                 /\ heap'[item].extra.size = s
                 /\ reply'.attr.size = s
                 /\ heap'[item].data = SubSeq(heap[item].data, 1, s)
                 /\ BitAnd(heap'[item].extra.perm, S_ISUID) = 0
                 /\ BitAnd(heap'[item].extra.perm, S_ISGID) =
                       IF BitAnd(heap[item].extra.perm, S_IXGRP) # 0 THEN 0
                       ELSE BitAnd(heap[item].extra.perm, S_ISGID)]_vars

\* C15: no sequence of requests aborts the engine: every request runs to
\* completion and produces a reply, never a panic, a failed unwrap or an
\* out-of-range slice.
C15_NoPanic == ~panicked

\* C16: mkdir replies ENOENT when the parent ino is not in the index or names
\* a regular file, and leaves the state unchanged.
C16_MkdirBadParent ==
    [][\A parent \in Inos, name \in Names :
          LET p == get_item_mut(parent)
              bad == IF p = None THEN TRUE ELSE ~heap[p].is_dir
          IN  (Mkdir(RootReq, parent, name, 493) /\ bad) =>
                 /\ reply'.err = "ENOENT"
                 /\ UNCHANGED <<heap, root, ino_to_node, current_inode>>]_vars

\* C17: the directory a successful mkdir(P, N, mode) inserts carries the
\* attributes of the mkdir reply: uid of the caller, gid of P under SGID and
\* of the caller otherwise, and the requested permissions after SUID/SGID
\* stripping and SGID inheritance.
C17_MkdirStoresFinalAttr ==
    [][\A parent \in Inos, name \in Names :
          (Mkdir(RootReq, parent, name, 493) /\ reply'.err = "OK") =>
             LET made  == heap'[ino_to_node'[reply'.attr.ino]].extra
                 pattr == heap[get_item_mut(parent)].extra
             IN  /\ made.uid = RootReq.uid
                 /\ made.gid = creation_gid(pattr, RootReq.gid)
                 /\ made.perm = 493
                 /\ made.uid = reply'.attr.uid
                 /\ made.gid = reply'.attr.gid
                 /\ made.perm = reply'.attr.perm]_vars

\* C13: a setattr that supplies several fields applies all of them, mode,
\* then uid/gid, then size, then atime, then mtime, and replies with the
\* resulting attributes: a call with mode or uid/gid and also a size or a
\* time applies the size and the time as well.
C13_SetattrAppliesAll ==
    [][\A req \in {RootReq, UserReq}, mode \in AttrModes, id \in AttrIds,
          size \in AttrSizes \ {0}, atime \in AttrTimes, mtime \in AttrTimes \ {Now} :
          (Setattr(req, 2, mode, id, id, size, atime, mtime) /\ reply'.err = "OK") =>
             LET old == heap[get_item_mut(2)]
                 new == heap'[get_item_mut(2)]
             IN  /\ reply'.attr = new.extra
                 /\ id # Nil => (new.extra.uid = id /\ new.extra.gid = id)
                 /\ (size # Nil /\ size <= Len(old.data)) =>
                       /\ new.extra.size = size
                       /\ new.data = SubSeq(old.data, 1, size)
                 /\ atime # Nil => new.extra.atime = time_of(atime)
                 /\ mtime # Nil => new.extra.mtime = time_of(mtime)]_vars

\* the requests of the error-frame claim
FrameOps == {"lookup", "mknod", "mkdir", "create", "rename", "unlink", "rmdir",
             "open", "opendir", "access", "read", "write"}

made_dir == IF reply.op = "mkdir" /\ reply.err = "OK"
            THEN get_item_mut(reply.attr.ino) ELSE None

\* C18: whenever mkdir(P, N) by some caller succeeds, an rmdir(P, N) by the
\* same caller that follows at once succeeds and leaves P with exactly the
\* children (names, inos, order) it had before the mkdir.
C18_MkdirRmdirRoundTrip ==
    [][\A req \in StickyReqs, parent \in {1, 2}, name \in StickyNames :
          (/\ made_dir # None
           /\ req.uid = reply.attr.uid
           /\ heap[made_dir].name = name
           /\ get_item_mut(parent) # None
           /\ heap[made_dir].parent = get_item_mut(parent)
           /\ Rmdir(req, parent, name)) =>
              /\ reply'.err = "OK"
              /\ heap'[get_item_mut(parent)].children =
                    SelectSeq(heap[get_item_mut(parent)].children,
                              LAMBDA c : c # made_dir)]_vars

\* C19 as claimed: whenever create(P, N) and then unlink(P, N) succeed, a
\* lookup(P, N) by the same caller replies ENOENT and getattr on the removed
\* item's ino replies ENOENT.
C19_LookupAfterUnlink ==
    [][\A req \in StickyReqs, parent \in {1, 2}, name \in StickyNames :
          LET p == get_item_mut(parent)
              child == find_child_mut(p, name)
          IN  (/\ Unlink(req, parent, name)
               /\ reply'.err = "OK"
               /\ ~heap[child].is_dir) =>
                  /\ lookup_reply(req, parent, name)'.err = "ENOENT"
                  /\ \A ino \in Inos :
                        ino = heap[child].ino => getattr_reply(ino)'.err = "ENOENT"]_vars

\* C19: whenever create(P, N) and then unlink(P, N) succeed, a lookup(P, N)
\* by the same caller replies ENOENT if the caller may search P and EACCES
\* if not, and getattr on the removed item's ino replies ENOENT.
C19_LookupAfterUnlinkSearch ==
    [][\A req \in StickyReqs, parent \in {1, 2}, name \in StickyNames :
          LET p == get_item_mut(parent)
              child == find_child_mut(p, name)
          IN  (/\ Unlink(req, parent, name)
               /\ reply'.err = "OK"
               /\ ~heap[child].is_dir) =>
                  /\ lookup_reply(req, parent, name)'.err =
                        IF check_access(heap[p].extra.uid, heap[p].extra.gid,
                                        heap[p].extra.perm, req.uid, req.gid, X_OK)
                        THEN "ENOENT" ELSE "EACCES"
                  /\ \A ino \in Inos :
                        ino = heap[child].ino => getattr_reply(ino)'.err = "ENOENT"]_vars

\* C19 witness: a file has just been unlinked from the root directory, which
\* nobody may search
C19_Witness ==
    /\ reply.op = "unlink" /\ reply.err = "OK"
    /\ root # None
    /\ BitAnd(heap[root].extra.perm, S_IXUSR + S_IXGRP + S_IXOTH) = 0
    /\ \E n \in Nodes : /\ ~heap[n].is_dir
                        /\ heap[n].parent = None
                        /\ get_item_mut(heap[n].ino) = None

\* the caller is root, the owner of directory p or the owner of its child
owns_either(req, p, child) ==
    \/ req.uid = 0
    \/ req.uid = heap[p].extra.uid
    \/ req.uid = heap[child].extra.uid

\* what rmdir replies on the checks it makes before the sticky-bit test
rmdir_before_sticky(req, p, child) ==
    IF ~check_access(heap[p].extra.uid, heap[p].extra.gid, heap[p].extra.perm,
                     req.uid, req.gid, W_OK) THEN "EACCES"
    ELSE IF ~heap[child].is_dir THEN "EACCES"
    ELSE IF heap[child].children # <<>> THEN "ENOTEMPTY"
    ELSE "OK"

\* C20 as claimed: in a sticky parent, unlink and rmdir by a non-root caller
\* who owns neither the parent nor the child reply EACCES and the child
\* stays in the tree and the index; for root, the parent's owner and the
\* child's owner the sticky bit causes no rejection.
C20_StickyRule ==
    [][\A req \in StickyReqs, parent \in {1, 2}, name \in StickyNames :
          LET p == get_item_mut(parent)
              child == find_child_mut(p, name)
          IN  /\ (/\ p # None
                  /\ child # None
                  /\ BitAnd(heap[p].extra.perm, S_ISVTX) # 0
                  /\ Unlink(req, parent, name)) =>
                     IF owns_either(req, p, child) THEN reply'.err = "OK"
                     ELSE reply'.err = "EACCES" /\ UNCHANGED <<heap, ino_to_node>>
              /\ (/\ p # None
                  /\ child # None
                  /\ BitAnd(heap[p].extra.perm, S_ISVTX) # 0
                  /\ Rmdir(req, parent, name)) =>
                     IF owns_either(req, p, child)
                     THEN reply'.err = rmdir_before_sticky(req, p, child)
                     ELSE reply'.err = "EACCES" /\ UNCHANGED <<heap, ino_to_node>>]_vars

\* C20: in a sticky parent, unlink by a non-root caller who owns neither the
\* parent nor the child replies EACCES, and rmdir by such a caller replies
\* ENOTEMPTY for a non-empty directory in a parent the caller may write and
\* EACCES otherwise; the child stays in the tree and the index.  For root,
\* the parent's owner and the child's owner the sticky bit causes no
\* rejection: unlink succeeds and rmdir replies what its other checks say.
C20_StickyRuleAfterOtherChecks ==
    [][\A req \in StickyReqs, parent \in {1, 2}, name \in StickyNames :
          LET p == get_item_mut(parent)
              child == find_child_mut(p, name)
          IN  /\ (/\ p # None
                  /\ child # None
                  /\ BitAnd(heap[p].extra.perm, S_ISVTX) # 0
                  /\ Unlink(req, parent, name)) =>
                     IF owns_either(req, p, child) THEN reply'.err = "OK"
                     ELSE reply'.err = "EACCES" /\ UNCHANGED <<heap, ino_to_node>>
              /\ (/\ p # None
                  /\ child # None
                  /\ BitAnd(heap[p].extra.perm, S_ISVTX) # 0
                  /\ Rmdir(req, parent, name)) =>
                     IF owns_either(req, p, child)
                     THEN reply'.err = rmdir_before_sticky(req, p, child)
                     ELSE /\ reply'.err =
                                IF rmdir_before_sticky(req, p, child) = "ENOTEMPTY"
                                THEN "ENOTEMPTY" ELSE "EACCES"
                          /\ UNCHANGED <<heap, ino_to_node>>]_vars

\* C20 witness: an unlink was refused in a sticky directory that holds a
\* child owned by a user who is neither root nor the directory's owner
C20_Witness ==
    /\ reply.op = "unlink" /\ reply.err = "EACCES"
    /\ \E n \in Nodes :
          /\ BitAnd(heap[n].extra.perm, S_ISVTX) # 0
          /\ \E i \in DOMAIN heap[n].children :
                LET c == heap[n].children[i]
                IN  heap[c].extra.uid \notin {0, heap[n].extra.uid}

\* C21 as claimed: rmdir(P, N) replies ENOTEMPTY when N is a directory with
\* at least one child and EACCES when N is a regular file; N and all of its
\* descendants remain in the tree and the index.
C21_RmdirRefusals ==
    [][\A req \in NameReqs, parent \in {1, 2}, name \in Names :
          LET p == get_item_mut(parent)
              child == find_child_mut(p, name)
          IN  (p # None /\ child # None /\ Rmdir(req, parent, name)) =>
                 /\ (heap[child].is_dir /\ heap[child].children # <<>>) =>
                       /\ reply'.err = "ENOTEMPTY"
                       /\ UNCHANGED <<heap, root, ino_to_node>>
                 /\ ~heap[child].is_dir =>
                       /\ reply'.err = "EACCES"
                       /\ UNCHANGED <<heap, root, ino_to_node>>]_vars

\* C21: rmdir(P, N) by a caller who may write P replies ENOTEMPTY when N is
\* a directory with at least one child and EACCES when N is a regular file;
\* by a caller who may not write P it replies EACCES in both cases; N and
\* all of its descendants remain in the tree and the index.
C21_RmdirRefusalsAfterWrite ==
    [][\A req \in NameReqs, parent \in {1, 2}, name \in Names :
          LET p == get_item_mut(parent)
              child == find_child_mut(p, name)
              may_write == check_access(heap[p].extra.uid, heap[p].extra.gid,
                                        heap[p].extra.perm, req.uid, req.gid, W_OK)
          IN  (p # None /\ child # None /\ Rmdir(req, parent, name)) =>
                 /\ (heap[child].is_dir /\ heap[child].children # <<>>) =>
                       /\ reply'.err = IF may_write THEN "ENOTEMPTY" ELSE "EACCES"
                       /\ UNCHANGED <<heap, root, ino_to_node>>
                 /\ ~heap[child].is_dir =>
                       /\ reply'.err = "EACCES"
                       /\ UNCHANGED <<heap, root, ino_to_node>>]_vars

\* C21 witness: an rmdir of a directory that holds a child was refused with
\* ENOTEMPTY
C21_Witness ==
    /\ reply.op = "rmdir" /\ reply.err = "ENOTEMPTY"
    /\ \E n \in Reach : n # root /\ heap[n].is_dir /\ heap[n].children # <<>>

\* C22: rename(P, name, P, new_name) replies EEXIST whenever P has a child
\* named new_name, whether or not name exists, and ENOENT when name is
\* missing; in both cases every child of P keeps its name, ino and position.
C22_RenameRefusals ==
    [][\A parent \in {1, 2}, name \in Names, new_name \in Names :
          LET p == get_item_mut(parent)
          IN  (p # None /\ Rename(parent, name, parent, new_name)) =>
                 /\ find_child_mut(p, new_name) # None =>
                       /\ reply'.err = "EEXIST"
                       /\ UNCHANGED <<heap, root, ino_to_node>>
                 /\ (find_child_mut(p, new_name) = None /\ find_child_mut(p, name) = None) =>
                       /\ reply'.err = "ENOENT"
                       /\ UNCHANGED <<heap, root, ino_to_node>>]_vars

\* C22 witness: a rename was refused with EEXIST in a tree where no
\* directory holds two children: the name to rename is missing or is
\* new_name itself
C22_Witness ==
    /\ reply.op = "rename" /\ reply.err = "EEXIST"
    /\ \A n \in Nodes : Len(heap[n].children) <= 1

\* C23: an item made by mknod or create, suid_support being false, has a
\* stored perm with SUID and SGID clear, the other permission bits as
\* requested and nothing outside the 12 permission bits.
C23_CreatedPerm ==
    [][\A parent \in Inos, name \in Names, mode \in Modes :
          (/\ \/ Mknod(RootReq, parent, name, mode)
              \/ \E flags \in {O_RDWR, O_ACCMODE} : Create(RootReq, parent, name, mode, flags)
           /\ reply'.err = "OK") =>
              heap'[ino_to_node'[reply'.attr.ino]].extra.perm =
                 BitClear(BitAnd(mode, 4095), S_ISUID + S_ISGID)]_vars

\* the nodes of S in the order of their inos, which is the order of creation
RECURSIVE ByIno(_)
ByIno(S) ==
    IF S = {} THEN <<>>
    ELSE LET first == CHOOSE n \in S : \A m \in S : heap[n].ino <= heap[m].ino
         IN  <<first>> \o ByIno(S \ {first})

\* the listing of directory n: ".", ".." unless n is the root, then the
\* items whose parent is n in the order they were created
Listing(n) ==
    <<[ino |-> heap[n].ino, kind |-> "Directory", name |-> "."]>>
    \o (IF n = root THEN <<>>
        ELSE <<[ino |-> heap[heap[n].parent].ino, kind |-> "Directory", name |-> ".."]>>)
    \o [i \in 1..Cardinality({c \in Nodes : heap[c].parent = n}) |->
          LET c == ByIno({d \in Nodes : heap[d].parent = n})[i]
          IN  [ino |-> heap[c].ino,
               kind |-> IF heap[c].is_dir THEN "Directory" ELSE "RegularFile",
               name |-> heap[c].name]]

C25_OpendirRepliesEacces ==
    [][\A req \in ErrReqs, ino \in Inos, flags \in ErrFlags :
          (/\ Opendir(req, ino, flags)
           /\ get_item_mut(ino) # None
           /\ access_mask(flags, FALSE).err = "OK"
           /\ ~check_access(heap[get_item_mut(ino)].extra.uid,
                            heap[get_item_mut(ino)].extra.gid,
                            heap[get_item_mut(ino)].extra.perm,
                            req.uid, req.gid, access_mask(flags, FALSE).mask)) =>
             reply'.err = "EACCES"]_vars

\* C26: in every reachable state only regular files hold content bytes
\* and only directories have children: whatever is written, truncated or
\* copied, the buffer of a directory stays empty and a regular file has no
\* child.
C26_OnlyFilesHoldBytes ==
    \A n \in Nodes :
       /\ heap[n].is_dir => heap[n].data = <<>>
       /\ ~heap[n].is_dir => children(n) = <<>>

\* C27: for every file uid, gid, perm p and mask m, check_access for a
\* requester with uid 0 is true exactly when m holds no execute bit or one
\* of the three execute bits is set in p.
C27_RootAccess ==
    (reply.op = "check_access" /\ reply.uid = 0) =>
       (reply.granted <=>
           \/ BitAnd(reply.access_mask, X_OK) = 0
           \/ BitAnd(reply.file_mode, S_IXUSR + S_IXGRP + S_IXOTH) # 0)

\* C27 witness: root is granted read, write and execute on a file whose
\* only execute bit is the one of the other triad
C27_Witness ==
    /\ reply.op = "check_access" /\ reply.uid = 0 /\ reply.file_uid = 1
    /\ reply.access_mask = R_OK + W_OK + X_OK
    /\ reply.file_mode = 1
    /\ reply.granted

\* the owner triad of a perm
owner_triad(perm) == BitAnd(perm \div 64, 7)

\* the result for the owner is the same for every perm with the same owner triad
same_for_owner_triad ==
    \A perm \in AccessPerms :
       owner_triad(perm) = owner_triad(reply.file_mode) =>
          check_access(reply.file_uid, reply.file_gid, perm, reply.uid, reply.gid,
                       reply.access_mask) = reply.granted

\* C28: when the requester uid equals the file's owner uid, the result of
\* check_access depends only on the owner triad of the perm, for every
\* owner uid, root included.
C28_OwnerTriadOnly ==
    (reply.op = "check_access" /\ reply.uid = reply.file_uid) => same_for_owner_triad

\* C28, amended: when the requester uid equals the file's owner uid and is
\* not 0, the result of check_access depends only on the owner triad of the
\* perm; the group and other triads neither grant nor deny.
C28_OwnerTriadOnlyNonRoot ==
    (reply.op = "check_access" /\ reply.uid = reply.file_uid /\ reply.uid # 0) =>
       same_for_owner_triad

\* C28 witness: the owner, not root, is refused execute on a file whose
\* group and other triads are rwx and whose owner triad is rw-
C28_Witness ==
    /\ reply.op = "check_access" /\ reply.uid = 1 /\ reply.file_uid = 1
    /\ reply.file_mode = (64 * 6) + (8 * 7) + 7
    /\ reply.access_mask = X_OK
    /\ ~reply.granted

\* the mask an open with valid flags asks for: execute for read-only with
\* FMODE_EXEC, read for read-only, write for write-only, both for read-write
wanted_mask(flags) ==
    IF flags % 4 = O_RDONLY
    THEN IF (flags \div FMODE_EXEC) % 2 = 1 THEN X_OK ELSE R_OK
    ELSE IF flags % 4 = O_WRONLY THEN W_OK
    ELSE R_OK + W_OK

\* C29: open(ino, flags) on an existing inode replies EINVAL when the
\* access mode is none of read-only, write-only, read-write; EACCES when
\* read-only comes with O_TRUNC, whatever the permissions; otherwise it
\* succeeds with a newly allocated handle exactly when check_access grants
\* the mask derived from the flags, and replies EACCES when not; a failed
\* open allocates no handle.
C29_OpenDecision ==
    [][\A req \in NameReqs, ino \in Inos, flags \in OpenFlags :
          (Open(req, ino, flags) /\ get_item_mut(ino) # None) =>
             LET attr == heap[get_item_mut(ino)].extra
             IN  /\ reply'.err \in {"OK", "EINVAL", "EACCES"}
                 /\ reply'.err = "EINVAL" <=> flags % 4 = O_ACCMODE
                 /\ reply'.err = "OK" <=>
                       /\ flags % 4 # O_ACCMODE
                       /\ ~(flags % 4 = O_RDONLY /\ (flags \div O_TRUNC) % 2 = 1)
                       /\ check_access(attr.uid, attr.gid, attr.perm, req.uid, req.gid,
                                       wanted_mask(flags))
                 /\ reply'.err = "OK" =>
                       /\ current_file_handle' > current_file_handle
                       /\ reply'.fh = current_file_handle'
                 /\ reply'.err # "OK" => UNCHANGED current_file_handle]_vars

\* C29 witness: an open has been refused with EACCES and no handle has
\* been allocated so far, while a file rw-r--r-- made by uid 1 exists
C29_Witness ==
    /\ reply.op = "open" /\ reply.err = "EACCES"
    /\ current_file_handle = 0
    /\ \E n \in Nodes :
          /\ ~heap[n].is_dir
          /\ heap[n].extra.perm = S_IFREG + 420
          /\ heap[n].extra.uid = 1

\* an item without its name and without the times a rename sets
unnamed(item) ==
    [item EXCEPT !.name = "", !.extra = [@ EXCEPT !.mtime = 0, !.ctime = 0]]

\* what a successful rename of child from name to new_name in directory p
\* leaves alone, and what it sets
rename_frame(p, child, new_name) ==
    /\ heap'[child].name = new_name
    /\ unnamed(heap'[child]) = unnamed(heap[child])
    /\ [heap'[p] EXCEPT !.extra = [@ EXCEPT !.mtime = 0, !.ctime = 0]]
          = [heap[p] EXCEPT !.extra = [@ EXCEPT !.mtime = 0, !.ctime = 0]]
    /\ DOMAIN heap' = DOMAIN heap
    /\ \A n \in Nodes : n \notin {p, child} => heap'[n] = heap[n]
    /\ ino_to_node'[heap[child].ino] = child
    /\ UNCHANGED <<root, ino_to_node, current_inode, current_file_handle>>

\* a rename across two directories replies ENOSYS and changes nothing
rename_across ==
    \A parent \in {1, 2}, name \in RenameNames, new_name \in RenameNames :
       Rename(parent, name, Other(parent), new_name) =>
          /\ reply'.err = "ENOSYS"
          /\ UNCHANGED <<heap, root, ino_to_node, current_inode, current_file_handle>>

\* C30: a successful rename(P, name, P, new_name) changes only the child's
\* name and the times of parent and child; afterwards every lookup(P,
\* new_name) returns the child's ino and every lookup(P, name) replies
\* ENOENT, the index maps the ino to the child, the child keeps content and
\* children, the siblings keep names, inos and order; a rename across
\* directories replies ENOSYS and changes nothing.
C30_RenameFrame ==
    [][/\ rename_across
       /\ \A parent \in {1, 2}, name \in RenameNames, new_name \in RenameNames :
             LET p == get_item_mut(parent)
                 child == find_child_mut(p, name)
             IN  (Rename(parent, name, parent, new_name) /\ reply'.err = "OK") =>
                    /\ rename_frame(p, child, new_name)
                    /\ \A req \in NameReqs :
                          /\ lookup_reply(req, parent, new_name)'.err = "OK"
                          /\ lookup_reply(req, parent, new_name)'.attr.ino = heap[child].ino
                          /\ lookup_reply(req, parent, name)'.err = "ENOENT"]_vars

\* C30, amended: as above, the two lookups being made by a caller that may
\* search P; a caller that may not is refused both with EACCES.
C30_RenameFrameSearch ==
    [][/\ rename_across
       /\ \A parent \in {1, 2}, name \in RenameNames, new_name \in RenameNames :
             LET p == get_item_mut(parent)
                 child == find_child_mut(p, name)
             IN  (Rename(parent, name, parent, new_name) /\ reply'.err = "OK") =>
                    /\ rename_frame(p, child, new_name)
                    /\ \A req \in NameReqs :
                          IF check_access(heap[p].extra.uid, heap[p].extra.gid,
                                          heap[p].extra.perm, req.uid, req.gid, X_OK)
                          THEN /\ lookup_reply(req, parent, new_name)'.err = "OK"
                               /\ lookup_reply(req, parent, new_name)'.attr.ino
                                     = heap[child].ino
                               /\ lookup_reply(req, parent, name)'.err = "ENOENT"
                          ELSE /\ lookup_reply(req, parent, new_name)'.err = "EACCES"
                               /\ lookup_reply(req, parent, name)'.err = "EACCES"]_vars

\* C30 witness: a rename has succeeded in the root directory, which holds
\* two children and which nobody may search
C30_Witness ==
    /\ reply.op = "rename" /\ reply.err = "OK"
    /\ root # None
    /\ Len(heap[root].children) = 2
    /\ BitAnd(heap[root].extra.perm, S_IXUSR + S_IXGRP + S_IXOTH) = 0

\* a setattr by a caller other than root leaves the uid of the item, and
\* changes its gid only for the owner and to a group the caller is in
chown_needs_authority(req, item) ==
    /\ heap'[item].extra.uid = heap[item].extra.uid
    /\ heap'[item].extra.gid # heap[item].extra.gid =>
          /\ req.uid = heap[item].extra.uid
          /\ heap'[item].extra.gid \in req.groups

\* the reply is EPERM and uid, gid and perm of the item are as before
chown_refused(item) ==
    /\ reply'.err = "EPERM"
    /\ heap'[item].extra.uid = heap[item].extra.uid
    /\ heap'[item].extra.gid = heap[item].extra.gid
    /\ heap'[item].extra.perm = heap[item].extra.perm

\* C31: a setattr from a caller other than root never changes an item's
\* uid, and changes its gid only when the caller owns the item and the new
\* gid is one of the caller's groups; every other chown by such a caller
\* replies EPERM and leaves uid, gid and perm.
C31_ChownAuthority ==
    [][\A req \in ChownReqs, ino \in ChownInos, mode \in AttrModes,
          uid \in ChownIds, gid \in ChownIds :
          LET item == get_item_mut(ino)
          IN  (Setattr(req, ino, mode, uid, gid, Nil, Nil, Nil) /\ item # None) =>
                 /\ chown_needs_authority(req, item)
                 /\ (/\ mode = Nil
                     /\ uid # Nil \/ gid # Nil
                     /\ ~(/\ req.uid = heap[item].extra.uid
                          /\ gid # Nil
                          /\ gid \in req.groups)) => chown_refused(item)]_vars

\* C31, amended: a setattr from a caller other than root never changes an
\* item's uid, and changes its gid only when the caller owns the item and
\* the new gid is one of the caller's groups; a chown by such a caller that
\* is not the owner, or names a gid outside the caller's groups, or names a
\* uid other than the item's, replies EPERM and leaves uid, gid and perm;
\* every other chown by the owner succeeds, the one that only names the
\* item's own uid included.
C31_ChownAuthorityNoOp ==
    [][\A req \in ChownReqs, ino \in ChownInos, mode \in AttrModes,
          uid \in ChownIds, gid \in ChownIds :
          LET item == get_item_mut(ino)
          IN  (Setattr(req, ino, mode, uid, gid, Nil, Nil, Nil) /\ item # None) =>
                 /\ chown_needs_authority(req, item)
                 /\ (mode = Nil /\ (uid # Nil \/ gid # Nil)) =>
                       IF \/ req.uid # heap[item].extra.uid
                          \/ gid # Nil /\ gid \notin req.groups
                          \/ uid # Nil /\ uid # heap[item].extra.uid
                       THEN chown_refused(item)
                       ELSE /\ reply'.err = "OK"
                            /\ gid # Nil => heap'[item].extra.gid = gid]_vars

\* C31 witness: the file of uid 1 has been given to group 2, which only its
\* owner can have done
C31_Witness ==
    /\ reply.op = "setattr" /\ reply.err = "OK"
    /\ reply.attr.uid = 1 /\ reply.attr.gid = 2
    /\ reply.attr.kind = "RegularFile"

\* C32: copy_file_range(src, src_off, dst, dst_off, size) between regular
\* files transfers n = min(size, src_len - src_off) bytes, src_len being the
\* length of the source's content: the reply is n, dst's content at
\* [dst_off, dst_off + n) is src's content at [src_off, src_off + n), and
\* the size dst reports is the length of its new content.
C32_CopyTransfers ==
    [][\A src_inode \in CopyInos, src_offset \in CopyOffsets, dest_inode \in CopyInos,
          dest_offset \in CopyOffsets :
          LET src == get_item_mut(src_inode)
              dest == get_item_mut(dest_inode)
          IN  (/\ CopyFileRange(src_inode, src_offset, dest_inode, dest_offset, 1)
               /\ src # None /\ dest # None
               /\ ~heap[src].is_dir /\ ~heap[dest].is_dir) =>
                  LET len == Len(heap[src].data)
                      n == Min(1, IF len > src_offset THEN len - src_offset ELSE 0)
                  IN  /\ reply'.err = "OK"
                      /\ reply'.written = n
                      /\ heap'[dest].extra.size = Len(heap'[dest].data)
                      /\ \A i \in 1..n :
                            /\ dest_offset + i <= Len(heap'[dest].data)
                            /\ heap'[dest].data[dest_offset + i]
                                  = heap[src].data[src_offset + i]]_vars

\* C33: in every reachable state the size a regular file reports in its
\* attributes is the length of its content buffer, whatever creates,
\* writes, truncations and copies came before.
C33_SizeIsLength ==
    \A n \in Nodes : ~heap[n].is_dir => heap[n].extra.size = Len(heap[n].data)

====
